---------------------------- MODULE Spec2Model ----------------------------
(***************************************************************************)
(* A model of TimeSlotManagerImpl                                          *)
(* (src/services/scheduling/TimeSlotManager.ts): the findAvailableSlots    *)
(* pipeline refresh -> generate -> filter -> batch-conflict-check ->       *)
(* buffer-tag -> score -> sort, run by a small number of calls on one      *)
(* manager, with the task store, the conflict source and the clock as the  *)
(* environment.                                                            *)
(*                                                                         *)
(* A Date is an integer: minutes since 00:00 UTC of day 0 of the model.    *)
(* The process reads a Date's fields (getHours, getDay, toDateString) in   *)
(* UTC; the viewer's zone is a fixed offset in minutes (no DST).           *)
(***************************************************************************)
EXTENDS Integers, Sequences, FiniteSets, TLC

\* ------------------------------------------------------------------ bounds

\* The generation loop is followed for at most this many passes: a call whose
\* loop runs longer (a range of more than a few hours, or a cursor that never
\* reaches the end bound) is followed no further.
MaxSlots == 8

\* The task store is written at most this many times during a run.
MaxStoreWrites == 1

\* --------------------------------------------------------- program constants

DEFAULT_TASK_DURATION == 30

MINIMUM_BUFFER_MINUTES == 15

\* ------------------------------------------------------------- input sets

Calls == {1, 2}

MinutesPerDay == 24 * 60

\* The instant of day d, h:m UTC.
At(d, h, m) == d * MinutesPerDay + h * 60 + m

\* task.duration is optional: <<>> is an absent (null) duration, <<d>> is d.
Durations == {<<>>, <<0>>, <<-30>>, <<30>>, <<45>>}

Tasks == [id : {"t1"}, duration : Durations]

\* (startDate, endDate) pairs a caller passes.
Ranges ==
    { [startDate |-> At(0, 8, 0),   endDate |-> At(0, 11, 0)],
      [startDate |-> At(0, 9, 0),   endDate |-> At(0, 10, 0)],
      [startDate |-> At(0, 14, 45), endDate |-> At(0, 17, 30)],
      [startDate |-> At(0, 16, 50), endDate |-> At(1, 10, 0)] }

\* The readings the clock goes through.
ClockValues == {At(0, 9, 0), At(0, 16, 50), At(1, 9, 0)}

\* Offsets, in minutes from UTC, of the viewer's zone.
TimeZones == {0, 60}

WorkDaysChoices == { {1, 2, 3, 4, 5}, {1, 2, 3, 4} }

SelectedCalendarsChoices == { {}, {"work"} }

\* The busy intervals the conflict source knows, in its order.
BusyIntervals ==
    << [calendar |-> "work", start |-> At(0, 9, 30), end |-> At(0, 10, 30)],
       [calendar |-> "home", start |-> At(1, 9, 0),  end |-> At(1, 9, 30)] >>

SettingsChoices ==
    [ workHourStart : {9}, workHourEnd : {17}, workDays : WorkDaysChoices,
      bufferMinutes : {15}, selectedCalendars : SelectedCalendarsChoices ]

NoRequest == [task |-> [id |-> "t1", duration |-> <<>>], startDate |-> 0, endDate |-> 0]

\* ------------------------------------------------------------------ state

VARIABLES
    settings,        \* this.settings (AutoScheduleSettings), fixed at construction
    timeZone,        \* this.timeZone: the viewer's offset from UTC, in minutes
    now,             \* the clock's reading: what newDate() returns
    taskStore,       \* version of the auto-scheduled tasks in the database
    scheduledTasks,  \* the snapshot the SlotScorer holds (a store version)
    pc,              \* per call: where the call is
    request,         \* per call: [task, startDate, endDate]
    fetched,         \* per call: the store version its findMany read
    nowAtGen,        \* per call: localNow's source, the clock read at line 225
    nowAtScore,      \* per call: the clock read when the call scored
    cursor,          \* per call: localCurrentStart
    endBound,        \* per call: localEndDate after rounding
    potentialSlots,  \* per call: slots of generatePotentialSlots
    workHourSlots,   \* per call: slots of filterByWorkHours
    batchResults,    \* per call: the answer of findBatchConflicts
    scoredSlots,     \* per call: slots of scoreSlots, before the sort
    result,          \* per call: the sequence returned
    batchQueries,    \* per call: findBatchConflicts calls issued
    slotQueries,     \* per call: findConflicts (per-slot) calls issued
    failure          \* per call: the collaborator that failed, or "none"

envVars == <<settings, timeZone, now, taskStore, scheduledTasks>>

callVars == <<pc, request, fetched, nowAtGen, nowAtScore, cursor, endBound,
              potentialSlots, workHourSlots, batchResults, scoredSlots, result,
              batchQueries, slotQueries, failure>>

vars == <<envVars, callVars>>

\* ------------------------------------------------- date utilities (date-utils)

AddMinutes(d, m) == d + m

AddDays(d, n) == d + n * MinutesPerDay

GetHours(d) == (d % MinutesPerDay) \div 60

GetMinutes(d) == d % 60

\* 0 = Sunday; day 0 of the model is a Thursday.
GetDay(d) == (4 + (d \div MinutesPerDay)) % 7

\* toDateString: the calendar day a Date reads as.
ToDateString(d) == d \div MinutesPerDay

SetHours(d, h) == d + (h - GetHours(d)) * 60

SetMinutes(d, m) == d + (m - GetMinutes(d))

\* toZonedTime: a Date whose fields read as the wall clock of the zone.
ToZonedTime(d, tz) == d + tz

\* roundDateUp: ceiling to the half hour, a no-op on an aligned Date.
RoundDateUp(d) == IF d % 30 = 0 THEN d ELSE d + (30 - (d % 30))

\* differenceInHours(a, b): whole hours, truncated toward zero.
DifferenceInHours(a, b) ==
    IF a >= b THEN (a - b) \div 60 ELSE -((b - a) \div 60)

\* ------------------------------------------------------------ the pipeline

\* A fresh TimeSlot, as the generation loop builds it.
NewSlot(start, end) ==
    [ start |-> start, end |-> end, score |-> 0, conflicts |-> <<>>,
      energyLevel |-> "null", isWithinWorkHours |-> FALSE,
      hasBufferTime |-> FALSE ]

\* task.duration || DEFAULT_TASK_DURATION: null and 0 are falsy.
DurationOf(task) ==
    IF task.duration = <<>> \/ task.duration[1] = 0
    THEN DEFAULT_TASK_DURATION
    ELSE task.duration[1]

\* Mutant of GenerationStart: on the request's start day the cursor starts
\* from the clock instead of from startDate.
GenerationStartFromNow(startDate, nowRead) ==
    LET localStartDate == ToZonedTime(startDate, timeZone)
        localNow == ToZonedTime(nowRead, timeZone)
        buffered == AddMinutes(localNow, MINIMUM_BUFFER_MINUTES)
        localCurrentStart ==
            IF ToDateString(localStartDate) = ToDateString(localNow)
            THEN IF GetHours(buffered) >= settings.workHourEnd
                 THEN AddDays(SetMinutes(SetHours(buffered, settings.workHourStart), 0), 1)
                 ELSE buffered
            ELSE SetMinutes(SetHours(localStartDate, settings.workHourStart), 0)
    IN  RoundDateUp(localCurrentStart)

\* generatePotentialSlots up to its loop: localCurrentStart, rounded.
GenerationStart(startDate, nowRead) ==
    LET localStartDate == ToZonedTime(startDate, timeZone)
        localNow == ToZonedTime(nowRead, timeZone)
        buffered == AddMinutes(localStartDate, MINIMUM_BUFFER_MINUTES)
        localCurrentStart ==
            IF ToDateString(localStartDate) = ToDateString(localNow)
            THEN IF GetHours(buffered) >= settings.workHourEnd
                 THEN AddDays(SetMinutes(SetHours(buffered, settings.workHourStart), 0), 1)
                 ELSE buffered
            ELSE SetMinutes(SetHours(localStartDate, settings.workHourStart), 0)
    IN  RoundDateUp(localCurrentStart)

\* generatePotentialSlots: localEndDate, rounded.
GenerationEnd(endDate) == RoundDateUp(ToZonedTime(endDate, timeZone))

\* The slot one pass of the loop emits at the cursor.
LoopSlot(localCurrentStart, duration) ==
    NewSlot(localCurrentStart, AddMinutes(localCurrentStart, duration))

\* The cursor after one pass of the loop.
LoopAdvance(localCurrentStart, duration) == AddMinutes(localCurrentStart, duration)

\* Mutant of PassesWorkHours: the work-day test is left out.
PassesWorkHoursAnyDay(slot) ==
    LET startHour == GetHours(ToZonedTime(slot.start, timeZone))
        endHour == GetHours(ToZonedTime(slot.end, timeZone))
    IN  /\ startHour >= settings.workHourStart
        /\ endHour <= settings.workHourEnd
        /\ startHour < settings.workHourEnd

\* The test of filterByWorkHours on one slot.
PassesWorkHours(slot) ==
    LET localStart == ToZonedTime(slot.start, timeZone)
        localEnd == ToZonedTime(slot.end, timeZone)
        startHour == GetHours(localStart)
        endHour == GetHours(localEnd)
        dayOfWeek == GetDay(localStart)
        isWorkDay == dayOfWeek \in settings.workDays
        isWithinWorkHours ==
            /\ startHour >= settings.workHourStart
            /\ endHour <= settings.workHourEnd
            /\ startHour < settings.workHourEnd
    IN  isWorkDay /\ isWithinWorkHours

FilterByWorkHours(slots) ==
    LET kept == SelectSeq(slots, PassesWorkHours)
    IN  [i \in 1..Len(kept) |-> [kept[i] EXCEPT !.isWithinWorkHours = TRUE]]

\* isWithinWorkHours(slot): the predicate the buffer windows are tested with.
IsWithinWorkHours(slot) ==
    LET localStart == ToZonedTime(slot.start, timeZone)
        localEnd == ToZonedTime(slot.end, timeZone)
        slotDay == GetDay(localStart)
        startHour == GetHours(localStart)
        endHour == GetHours(localEnd)
    IN  IF slotDay \notin settings.workDays
        THEN FALSE
        ELSE /\ startHour >= settings.workHourStart
             /\ endHour <= settings.workHourEnd
             /\ startHour < settings.workHourEnd

\* The conflict source's batch answer: for each slot, in order, the busy
\* intervals of the selected calendars that overlap it.
FindBatchConflicts(slots, selectedCalendars) ==
    [ i \in 1..Len(slots) |->
        [ slot |-> slots[i],
          conflicts |->
            SelectSeq(BusyIntervals,
                      LAMBDA b : /\ b.calendar \in selectedCalendars
                                 /\ b.start < slots[i].end
                                 /\ slots[i].start < b.end) ] ]

\* Mutant of RemoveConflicts: a slot with conflicts is kept, its conflicts
\* recorded on it.
RemoveConflictsKeepAll(results) ==
    [i \in 1..Len(results) |->
        [results[i].slot EXCEPT !.conflicts = results[i].conflicts]]

\* removeConflicts after the answer: the slots reported free, in order.
RemoveConflicts(results) ==
    LET free == SelectSeq(results, LAMBDA r : Len(r.conflicts) = 0)
    IN  [i \in 1..Len(free) |-> free[i].slot]

CalculateBufferTimes(slot) ==
    LET bufferMinutes == settings.bufferMinutes
        before == NewSlot(AddMinutes(slot.start, -bufferMinutes), slot.start)
        after == NewSlot(slot.end, AddMinutes(slot.end, bufferMinutes))
    IN  [ beforeBuffer |-> [before EXCEPT !.isWithinWorkHours = IsWithinWorkHours(before)],
          afterBuffer |-> [after EXCEPT !.isWithinWorkHours = IsWithinWorkHours(after)] ]

\* Mutant of ApplyBufferTimes: only the window after the slot is tested.
ApplyBufferTimesAfterOnly(slots) ==
    [ i \in 1..Len(slots) |->
        [slots[i] EXCEPT !.hasBufferTime =
            CalculateBufferTimes(slots[i]).afterBuffer.isWithinWorkHours] ]

ApplyBufferTimes(slots) ==
    [ i \in 1..Len(slots) |->
        LET b == CalculateBufferTimes(slots[i])
        IN  [slots[i] EXCEPT !.hasBufferTime =
                b.beforeBuffer.isWithinWorkHours /\ b.afterBuffer.isWithinWorkHours] ]

\* The auto-scheduled tasks findMany returns from a version of the store: none
\* at first (nor in the scorer before its first update), one task once the
\* store has been written.
StoredTasks(version) ==
    IF version >= 1
    THEN {[scheduledStart |-> At(0, 11, 0), scheduledEnd |-> At(0, 11, 30)]}
    ELSE {}

\* The scorer's use of its snapshot: a slot that ends at most half an hour
\* before a scheduled task scores higher (clustering).
ProximityBonus(slot, snapshot) ==
    IF \E t \in StoredTasks(snapshot) :
          /\ slot.end <= t.scheduledStart
          /\ t.scheduledStart - slot.end <= 30
    THEN 2
    ELSE 0

\* SlotScorer.scoreSlot: the baseline (earlier slots score higher, in whole
\* hours from the current instant) plus what the scorer makes of its snapshot.
ScoreSlot(slot, task, snapshot, nowRead) ==
    [total |-> -DifferenceInHours(slot.start, nowRead) + ProximityBonus(slot, snapshot)]

ScoreSlots(slots, task, snapshot, nowRead) ==
    [ i \in 1..Len(slots) |->
        [slots[i] EXCEPT !.score = ScoreSlot(slots[i], task, snapshot, nowRead).total] ]

\* Mutant of CompareScore: ascending.
CompareScoreAscending(a, b) == a.score - b.score

\* The comparator of sortByScore: negative when a sorts before b.
CompareScore(a, b) == b.score - a.score

\* Array.prototype.sort is stable: x goes after every element that does not
\* sort after it.
RECURSIVE InsertSorted(_, _)
InsertSorted(sorted, x) ==
    IF sorted = <<>> THEN <<x>>
    ELSE IF CompareScore(sorted[Len(sorted)], x) <= 0
         THEN Append(sorted, x)
         ELSE Append(InsertSorted(SubSeq(sorted, 1, Len(sorted) - 1), x),
                     sorted[Len(sorted)])

RECURSIVE SortFrom(_, _, _)
SortFrom(slots, i, acc) ==
    IF i > Len(slots) THEN acc
    ELSE SortFrom(slots, i + 1, InsertSorted(acc, slots[i]))

SortByScore(slots) == SortFrom(slots, 1, <<>>)


\* ---------------------------------------------------------------- actions

\* The code between two awaits runs to completion: while a call is inside
\* the generation loop no other call, nor the environment, takes a step.
NoneGenerating == \A d \in Calls : pc[d] # "generate"

\* Mutant of IssuedQueries: one findConflicts query per slot.
IssuedQueriesPerSlot(slots) == [batch |-> 0, perSlot |-> Len(slots)]

\* What removeConflicts sends to the conflict source for a list of slots.
IssuedQueries(slots) == [batch |-> 1, perSlot |-> 0]

TypeOK ==
    /\ settings \in SettingsChoices
    /\ timeZone \in TimeZones
    /\ now \in ClockValues
    /\ taskStore \in 0..MaxStoreWrites
    /\ scheduledTasks \in -1..MaxStoreWrites
    /\ pc \in [Calls -> {"idle", "refresh", "read", "generate", "conflicts",
                         "returned", "rejected"}]
    /\ failure \in [Calls -> {"none", "refresh", "conflicts"}]

Init ==
    /\ settings \in SettingsChoices
    /\ timeZone \in TimeZones
    /\ now \in ClockValues
    /\ taskStore = 0
    /\ scheduledTasks = -1
    /\ pc = [c \in Calls |-> "idle"]
    /\ request = [c \in Calls |-> NoRequest]
    /\ fetched = [c \in Calls |-> -1]
    /\ nowAtGen = [c \in Calls |-> 0]
    /\ nowAtScore = [c \in Calls |-> 0]
    /\ cursor = [c \in Calls |-> 0]
    /\ endBound = [c \in Calls |-> 0]
    /\ potentialSlots = [c \in Calls |-> <<>>]
    /\ workHourSlots = [c \in Calls |-> <<>>]
    /\ batchResults = [c \in Calls |-> <<>>]
    /\ scoredSlots = [c \in Calls |-> <<>>]
    /\ result = [c \in Calls |-> <<>>]
    /\ batchQueries = [c \in Calls |-> 0]
    /\ slotQueries = [c \in Calls |-> 0]
    /\ failure = [c \in Calls |-> "none"]

\* findAvailableSlots is called: updateScheduledTasks sends findMany. The calls
\* are numbered in the order they are made, and the callers of one run submit
\* the same request (a retry, or a duplicate in flight).
Start(c) ==
    /\ pc[c] = "idle"
    /\ NoneGenerating
    /\ \A d \in Calls : d < c => pc[d] # "idle"
    /\ \E t \in Tasks, r \in Ranges :
         /\ \A d \in Calls : pc[d] # "idle" =>
                request[d] = [task |-> t, startDate |-> r.startDate, endDate |-> r.endDate]
         /\ request' = [request EXCEPT ![c] =
                        [task |-> t, startDate |-> r.startDate, endDate |-> r.endDate]]
    /\ pc' = [pc EXCEPT ![c] = "refresh"]
    /\ UNCHANGED <<envVars, fetched, nowAtGen, nowAtScore, cursor, endBound,
                   potentialSlots, workHourSlots, batchResults, scoredSlots,
                   result, batchQueries, slotQueries, failure>>

\* The database runs the call's findMany: the answer is the store as it is now.
RefreshRead(c) ==
    /\ pc[c] = "refresh"
    /\ NoneGenerating
    /\ fetched' = [fetched EXCEPT ![c] = taskStore]
    /\ pc' = [pc EXCEPT ![c] = "read"]
    /\ UNCHANGED <<envVars, request, nowAtGen, nowAtScore, cursor, endBound,
                   potentialSlots, workHourSlots, batchResults, scoredSlots,
                   result, batchQueries, slotQueries, failure>>

\* findMany fails: nothing catches the rejection, the call rejects.
RefreshFail(c) ==
    /\ pc[c] \in {"refresh", "read"}
    /\ NoneGenerating
    /\ failure' = [failure EXCEPT ![c] = "refresh"]
    /\ pc' = [pc EXCEPT ![c] = "rejected"]
    /\ UNCHANGED <<envVars, request, fetched, nowAtGen, nowAtScore, cursor,
                   endBound, potentialSlots, workHourSlots, batchResults,
                   scoredSlots, result, batchQueries, slotQueries>>

\* findMany resolves: the scorer takes the snapshot, and generatePotentialSlots
\* runs up to its loop.
RefreshReturn(c) ==
    /\ pc[c] = "read"
    /\ NoneGenerating
    /\ scheduledTasks' = fetched[c]
    /\ nowAtGen' = [nowAtGen EXCEPT ![c] = now]
    /\ cursor' = [cursor EXCEPT ![c] = GenerationStart(request[c].startDate, now)]
    /\ endBound' = [endBound EXCEPT ![c] = GenerationEnd(request[c].endDate)]
    /\ potentialSlots' = [potentialSlots EXCEPT ![c] = <<>>]
    /\ pc' = [pc EXCEPT ![c] = "generate"]
    /\ UNCHANGED <<settings, timeZone, now, taskStore, request, fetched,
                   nowAtScore, workHourSlots, batchResults, scoredSlots, result,
                   batchQueries, slotQueries, failure>>

\* One pass of the generation loop.
GenStep(c) ==
    /\ pc[c] = "generate"
    /\ cursor[c] < endBound[c]
    /\ Len(potentialSlots[c]) < MaxSlots
    /\ potentialSlots' = [potentialSlots EXCEPT ![c] =
            Append(@, LoopSlot(cursor[c], DurationOf(request[c].task)))]
    /\ cursor' = [cursor EXCEPT ![c] = LoopAdvance(@, DurationOf(request[c].task))]
    /\ UNCHANGED <<envVars, pc, request, fetched, nowAtGen, nowAtScore, endBound,
                   workHourSlots, batchResults, scoredSlots, result,
                   batchQueries, slotQueries, failure>>

\* The loop ends: filterByWorkHours, then removeConflicts sends its query.
GenDone(c) ==
    /\ pc[c] = "generate"
    /\ ~(cursor[c] < endBound[c])
    /\ workHourSlots' = [workHourSlots EXCEPT ![c] = FilterByWorkHours(potentialSlots[c])]
    /\ batchQueries' = [batchQueries EXCEPT ![c] =
            @ + IssuedQueries(workHourSlots'[c]).batch]
    /\ slotQueries' = [slotQueries EXCEPT ![c] =
            @ + IssuedQueries(workHourSlots'[c]).perSlot]
    /\ pc' = [pc EXCEPT ![c] = "conflicts"]
    /\ UNCHANGED <<envVars, request, fetched, nowAtGen, nowAtScore, cursor,
                   endBound, potentialSlots, batchResults, scoredSlots, result,
                   failure>>

\* Mutant of ConflictFail: the failure is caught and the unchecked slots are
\* returned.
ConflictFailBestEffort(c) ==
    /\ pc[c] = "conflicts"
    /\ NoneGenerating
    /\ failure' = [failure EXCEPT ![c] = "conflicts"]
    /\ result' = [result EXCEPT ![c] = workHourSlots[c]]
    /\ pc' = [pc EXCEPT ![c] = "returned"]
    /\ UNCHANGED <<envVars, request, fetched, nowAtGen, nowAtScore, cursor,
                   endBound, potentialSlots, workHourSlots, batchResults,
                   scoredSlots, batchQueries, slotQueries>>

\* findBatchConflicts fails: nothing catches the rejection, the call rejects.
ConflictFail(c) ==
    /\ pc[c] = "conflicts"
    /\ NoneGenerating
    /\ failure' = [failure EXCEPT ![c] = "conflicts"]
    /\ pc' = [pc EXCEPT ![c] = "rejected"]
    /\ UNCHANGED <<envVars, request, fetched, nowAtGen, nowAtScore, cursor,
                   endBound, potentialSlots, workHourSlots, batchResults,
                   scoredSlots, result, batchQueries, slotQueries>>

\* findBatchConflicts resolves: the rest of removeConflicts, applyBufferTimes,
\* scoreSlots, sortByScore, and the return.
ConflictReturn(c) ==
    /\ pc[c] = "conflicts"
    /\ NoneGenerating
    /\ batchResults' = [batchResults EXCEPT ![c] =
            FindBatchConflicts(workHourSlots[c], settings.selectedCalendars)]
    /\ nowAtScore' = [nowAtScore EXCEPT ![c] = now]
    /\ scoredSlots' = [scoredSlots EXCEPT ![c] =
            ScoreSlots(ApplyBufferTimes(RemoveConflicts(batchResults'[c])),
                       request[c].task, scheduledTasks, now)]
    /\ result' = [result EXCEPT ![c] = SortByScore(scoredSlots'[c])]
    /\ pc' = [pc EXCEPT ![c] = "returned"]
    /\ UNCHANGED <<envVars, request, fetched, nowAtGen, cursor, endBound,
                   potentialSlots, workHourSlots, batchQueries, slotQueries,
                   failure>>

\* The clock advances. The clock is read only as a findMany or a
\* findBatchConflicts resolves, so its advance is modelled while one is pending.
Tick ==
    /\ NoneGenerating
    /\ \E c \in Calls : pc[c] \in {"read", "conflicts"}
    /\ \E t \in ClockValues : t > now /\ now' = t
    /\ UNCHANGED <<settings, timeZone, taskStore, scheduledTasks, callVars>>

\* Some other part of the application schedules or unschedules a task. The
\* store is read only by findMany, so a write is modelled while one is pending.
StoreWrite ==
    /\ NoneGenerating
    /\ \E c \in Calls : pc[c] = "refresh"
    /\ taskStore < MaxStoreWrites
    /\ taskStore' = taskStore + 1
    /\ UNCHANGED <<settings, timeZone, now, scheduledTasks, callVars>>

Next ==
    \/ \E c \in Calls :
         \/ Start(c)
         \/ RefreshRead(c)
         \/ RefreshFail(c)
         \/ RefreshReturn(c)
         \/ GenStep(c)
         \/ GenDone(c)
         \/ ConflictFail(c)
         \/ ConflictReturn(c)
    \/ Tick
    \/ StoreWrite

Spec == Init /\ [][Next]_vars

\* ----------------------------------------------------------------- claims

Returned(c) == pc[c] = "returned"

SameSlot(a, b) == a.start = b.start /\ a.end = b.end

\* The calendar day and the hour the viewer reads a slot's instant as.
LocalDayOf(d) == ToDateString(ToZonedTime(d, timeZone))

LocalHourOf(d) == GetHours(ToZonedTime(d, timeZone))

\* The call's request starts on the local day the clock read at generation.
StartsToday(c) == LocalDayOf(request[c].startDate) = LocalDayOf(nowAtGen[c])

\* C1: with a non-empty selected-calendar list, a slot for which the batched
\* conflict query reported an overlapping interval is neither scored nor
\* returned, whatever the other slots' results are.
C1_NoConflictingSlotReturned ==
    \A c \in Calls :
        (Returned(c) /\ settings.selectedCalendars # {}) =>
            \A k \in 1..Len(batchResults[c]) :
                batchResults[c][k].conflicts # <<>> =>
                    /\ \A i \in 1..Len(result[c]) :
                          ~SameSlot(result[c][i], batchResults[c][k].slot)
                    /\ \A i \in 1..Len(scoredSlots[c]) :
                          ~SameSlot(scoredSlots[c][i], batchResults[c][k].slot)

\* A call returned some slots after the conflict source reported a conflict
\* for another of its slots.
C1_Witness ==
    \E c \in Calls :
        /\ Returned(c)
        /\ settings.selectedCalendars # {}
        /\ result[c] # <<>>
        /\ \E k \in 1..Len(batchResults[c]) : batchResults[c][k].conflicts # <<>>

\* The duration the task asks for: 30 minutes when it is absent, zero or
\* negative.
IntendedDuration(task) ==
    IF task.duration = <<>> THEN 30
    ELSE IF task.duration[1] <= 0 THEN 30 ELSE task.duration[1]

\* C2: every generated slot has start < end and lasts task.duration minutes,
\* an absent or non-positive duration counting as the default of 30 minutes.
C2_GeneratedSlotsHaveTaskDuration ==
    \A c \in Calls :
        \A i \in 1..Len(potentialSlots[c]) :
            /\ potentialSlots[c][i].start < potentialSlots[c][i].end
            /\ potentialSlots[c][i].end - potentialSlots[c][i].start
                  = IntendedDuration(request[c].task)

\* The work-hours condition of the settings, on a slot as the viewer reads it.
InsideWorkHours(slot) ==
    /\ LocalHourOf(slot.start) >= settings.workHourStart
    /\ LocalHourOf(slot.start) < settings.workHourEnd
    /\ LocalHourOf(slot.end) <= settings.workHourEnd
    /\ GetDay(ToZonedTime(slot.start, timeZone)) \in settings.workDays

\* C3: every slot the work-hour filter retains, and every slot returned, has
\* its local start hour in [workHourStart, workHourEnd), its local end hour
\* <= workHourEnd, its local weekday in workDays and isWithinWorkHours true;
\* no slot is kept with a false flag.
C3_RetainedSlotsWithinWorkHours ==
    \A c \in Calls :
        /\ \A i \in 1..Len(workHourSlots[c]) :
              InsideWorkHours(workHourSlots[c][i]) /\ workHourSlots[c][i].isWithinWorkHours
        /\ \A i \in 1..Len(result[c]) :
              InsideWorkHours(result[c][i]) /\ result[c][i].isWithinWorkHours

\* A call returned slots after the filter dropped a generated slot that
\* starts before the work hours.
C3_Witness ==
    \E c \in Calls :
        /\ Returned(c)
        /\ result[c] # <<>>
        /\ \E i \in 1..Len(potentialSlots[c]) :
              /\ LocalHourOf(potentialSlots[c][i].start) < settings.workHourStart
              /\ \A k \in 1..Len(workHourSlots[c]) :
                    ~SameSlot(workHourSlots[c][k], potentialSlots[c][i])

\* C4: with no calendar selected, a call sends no conflict query at all and
\* returns every slot the work-hour filter retained.
C4_NoQueryWithoutCalendars ==
    \A c \in Calls :
        settings.selectedCalendars = {} =>
            /\ batchQueries[c] = 0
            /\ slotQueries[c] = 0
            /\ Returned(c) => Len(result[c]) = Len(workHourSlots[c])

\* C5: when the request starts on the local current day, the first generated
\* slot starts no earlier than the current instant plus the 15-minute lead
\* buffer, rounded up to the next half hour.
C5_FirstSlotAfterLeadBuffer ==
    \A c \in Calls :
        (potentialSlots[c] # <<>> /\ StartsToday(c)) =>
            potentialSlots[c][1].start >=
                RoundDateUp(AddMinutes(ToZonedTime(nowAtGen[c], timeZone), 15))

\* C6: when the request starts today and now plus the 15-minute lead has
\* local hour >= workHourEnd, no returned slot lies on the current day and the
\* earliest returned slot starts at workHourStart:00.
C6_LateInDayStartsNextWorkDay ==
    \A c \in Calls :
        ( /\ Returned(c)
          /\ StartsToday(c)
          /\ GetHours(AddMinutes(ToZonedTime(nowAtGen[c], timeZone), 15))
                >= settings.workHourEnd ) =>
            \A i \in 1..Len(result[c]) :
                /\ ToDateString(result[c][i].start) > LocalDayOf(nowAtGen[c])
                /\ (\A j \in 1..Len(result[c]) : result[c][i].start <= result[c][j].start)
                      => /\ GetHours(result[c][i].start) = settings.workHourStart
                         /\ GetMinutes(result[c][i].start) = 0

\* The place of a slot in a sequence of slots with distinct starts.
PlaceOf(slots, slot) == CHOOSE i \in 1..Len(slots) : SameSlot(slots[i], slot)

\* C7: the returned sequence is the scored slots sorted by score descending,
\* and slots of equal score keep their pipeline (chronological) order.
C7_SortedByScoreStable ==
    \A c \in Calls :
        Returned(c) =>
            /\ Len(result[c]) = Len(scoredSlots[c])
            /\ \A i \in 1..Len(result[c]) :
                  \E k \in 1..Len(scoredSlots[c]) : scoredSlots[c][k] = result[c][i]
            /\ \A i, j \in 1..Len(result[c]) :
                  i < j =>
                      /\ result[c][i].score >= result[c][j].score
                      /\ result[c][i].score = result[c][j].score =>
                            /\ PlaceOf(scoredSlots[c], result[c][i])
                                  < PlaceOf(scoredSlots[c], result[c][j])
                            /\ result[c][i].start < result[c][j].start

\* A call returned slots of two different scores, two of them tied, in another
\* order than the pipeline's.
C7_Witness ==
    \E c \in Calls :
        /\ Returned(c)
        /\ result[c] # scoredSlots[c]
        /\ \E i, j \in 1..Len(result[c]) :
              i # j /\ result[c][i].score = result[c][j].score
        /\ \E i, j \in 1..Len(result[c]) : result[c][i].score # result[c][j].score

\* C8: a call whose task refresh or batched conflict query failed ends
\* rejected, which no returned call is, and hands out no slot list.
C8_FailureRejectsCall ==
    \A c \in Calls :
        /\ failure[c] # "none" => (pc[c] = "rejected" /\ result[c] = <<>>)
        /\ Returned(c) => failure[c] = "none"

\* The conflict query of a call failed while the call held slots that passed
\* the work-hour filter; and the refresh of a call failed.
C8_Witness ==
    /\ \E c \in Calls : failure[c] = "conflicts" /\ workHourSlots[c] # <<>>
    /\ \E c \in Calls : failure[c] = "refresh"

\* A slot without its score.
Unscored(slot) == [slot EXCEPT !.score = 0]

UnscoredSet(slots) == {Unscored(slots[i]) : i \in 1..Len(slots)}

\* Two calls made the same request and read the same task store.
SameRequestAndStore(c, d) ==
    /\ Returned(c) /\ Returned(d)
    /\ request[c] = request[d]
    /\ fetched[c] = fetched[d]

C10_AtMostOneBatchQuery ==
    \A c \in Calls : batchQueries[c] <= 1 /\ slotQueries[c] = 0

\* A call with several candidate slots returned after one batched query.
C10_Witness ==
    \E c \in Calls :
        /\ Returned(c)
        /\ Len(workHourSlots[c]) >= 2
        /\ batchQueries[c] = 1

\* The results of the batched query that report no conflict, in order.
FreeResults(c) == SelectSeq(batchResults[c], LAMBDA r : r.conflicts = <<>>)

\* A window [start, end] as a slot, for the work-hours condition.
Window(start, end) == [start |-> start, end |-> end]

\* C11: calculateBufferTimes gives beforeBuffer = [start - bufferMinutes, start]
\* and afterBuffer = [end, end + bufferMinutes]; the buffer stage hands on
\* exactly the slots it got, in order, with hasBufferTime true iff both windows
\* are within work hours (weekday, start hour, end hour).
C11_BufferStageTagsOnly ==
    \A c \in Calls :
        Returned(c) =>
            LET free == FreeResults(c)
                b == settings.bufferMinutes
            IN  /\ Len(scoredSlots[c]) = Len(free)
                /\ \A i \in 1..Len(free) :
                      LET slot == free[i].slot
                          buffers == CalculateBufferTimes(slot)
                      IN  /\ SameSlot(scoredSlots[c][i], slot)
                          /\ buffers.beforeBuffer.start = slot.start - b
                          /\ buffers.beforeBuffer.end = slot.start
                          /\ buffers.afterBuffer.start = slot.end
                          /\ buffers.afterBuffer.end = slot.end + b
                          /\ scoredSlots[c][i].hasBufferTime <=>
                                /\ InsideWorkHours(Window(slot.start - b, slot.start))
                                /\ InsideWorkHours(Window(slot.end, slot.end + b))

\* A call returned a slot with both buffer windows within work hours and a
\* slot that is kept although the window after it is outside work hours.
C11_Witness ==
    \E c \in Calls :
        /\ Returned(c)
        /\ \E i \in 1..Len(result[c]) : result[c][i].hasBufferTime
        /\ \E i \in 1..Len(result[c]) :
              /\ ~result[c][i].hasBufferTime
              /\ ~InsideWorkHours(Window(result[c][i].end,
                                         result[c][i].end + settings.bufferMinutes))

\* C12: slot generation terminates for every duration (absent, zero, negative,
\* positive): each pass of the loop moves the cursor strictly forward, so the
\* starts of the emitted slots strictly increase and the cursor is beyond the
\* start of the last slot emitted, until the rounded end bound is reached.
C12_CursorStrictlyIncreases ==
    \A c \in Calls :
        LET slots == potentialSlots[c]
        IN  /\ \A i \in 2..Len(slots) : slots[i].start > slots[i - 1].start
            /\ (pc[c] = "generate" /\ Len(slots) > 0) =>
                  cursor[c] > slots[Len(slots)].start

\* C13: in every interleaving of concurrent calls, the snapshot the scorer
\* holds when a call scores was read from the store no earlier than that call's
\* own refresh read: the scores a call returns are those of a snapshot at least
\* as recent as the one its own refresh fetched.
C13_ScoredWithOwnOrLaterSnapshot ==
    \A c \in Calls :
        Returned(c) =>
            \E snapshot \in fetched[c]..MaxStoreWrites :
                scoredSlots[c] =
                    ScoreSlots(ApplyBufferTimes(RemoveConflicts(batchResults[c])),
                               request[c].task, snapshot, nowAtScore[c])

\* The instant workHourEnd:00 of the local day on which d falls, as the viewer
\* reads it.
LocalWorkEndOf(d) ==
    SetMinutes(SetHours(ToZonedTime(d, timeZone), settings.workHourEnd), 0)

\* C14: every returned slot lies entirely inside the work hours of the local
\* day on which it starts: its local end is at or before workHourEnd:00 of
\* that day, for every duration.
C14_ReturnedSlotsEndByWorkHourEnd ==
    \A c \in Calls :
        Returned(c) =>
            \A i \in 1..Len(result[c]) :
                ToZonedTime(result[c][i].end, timeZone)
                    <= LocalWorkEndOf(result[c][i].start)

=============================================================================
